---------------------------- MODULE Spec2Model ----------------------------
(***************************************************************************)
(* HTTP/2 conformance harness (fluke / httpwg): the frame codec of         *)
(* src/h2/parse.rs and the connection engine of crates/httpwg/src/lib.rs.  *)
(*                                                                         *)
(* The engine is a reader task (Conn::new, recv_fut) that turns the bytes  *)
(* read from the peer into Ev::Frame events on a tokio mpsc channel, and a *)
(* consumer (wait_for_frame, handshake) that takes events from the channel *)
(* under a deadline.  Both run on one cooperative executor: a step of the  *)
(* model is the code between two await points.                             *)
(***************************************************************************)
EXTENDS Integers, Sequences, FiniteSets, TLC

\* ------------------------------------------------------------------ bounds
\* Longest list of frames a peer sends in one run.
MaxFrames == 2

\* --------------------------------------------------------- program constants
\* Config::default(): timeout: Duration::from_secs(1).  The clock of the model
\* counts whole seconds.
DefaultTimeout == 1
\* tokio::sync::mpsc::channel::<Ev>(1)
ChannelCapacity == 1
\* res_buf.read_into(16384, &mut r)
ReadChunk == 16384
\* 9-byte frame header: 3 (length) + 1 (type) + 1 (flags) + 4 (R + stream id)
HeaderLen == 9

VARIABLES
    \* the peer and the byte stream towards the reader
    peerTodo,    \* frames the peer has still to write: [frame, payload, after]
    sent,        \* frames the peer has written completely, in wire order
    partial,     \* bytes of a last, truncated frame the peer wrote before hanging up
    wire,        \* bytes written by the peer and not yet read by the reader
    link,        \* "open" | "closed" (peer hung up) | "reset" (reads fail)
    \* the reader task (recv_fut)
    rpc,         \* "read_header" | "read_payload" | "send" | "done" | "panicked" | "failed"
    eof,         \* eof
    res_buf,     \* res_buf.filled()
    cur,         \* the frame parsed and not yet sent: [frame, payload], or NoFrame
    \* the channel
    ev_rx,       \* events sent and not yet received
    \* the consumer (wait_for_frame / handshake)
    cpc,         \* "idle" | "waiting" | "hs_preface" | "hs_settings" | "hs_wait1"
                 \* | "hs_ack" | "hs_wait2" | "hs_ok" | "hs_err" | "panicked"
    failure,     \* why the consumer panicked, or "none"
    types,       \* types
    last_frame,  \* last_frame
    now,         \* Instant::now() in ticks, counted from the call of the
                 \* latest wait_for_frame (no other time is ever read)
    deadline,    \* deadline
    received,    \* every event taken from the channel, in order
    returned,    \* the frames wait_for_frame returned, in order, each with
                 \* the types asked for and its index in received
    w,           \* what the consumer wrote to the peer, in order
    \* a call of a function of the codec, on its own
    probe        \* [call, arg, done] and, once done, [.., out, back]

vars == <<peerTodo, sent, partial, wire, link, rpc, eof, res_buf, cur, ev_rx,
          cpc, failure, types, last_frame, now, deadline, received, returned, w,
          probe>>

peerVars == <<peerTodo, sent, partial, wire, link>>
readerVars == <<rpc, eof, res_buf, cur>>
consumerVars == <<cpc, failure, types, last_frame, now, deadline, received, returned, w>>

\* ------------------------------------------------------------- arithmetic
Min(a, b) == IF a < b THEN a ELSE b

RECURSIVE BitAnd(_, _)
\* a & b on unsigned integers
BitAnd(a, b) ==
    IF a = 0 \/ b = 0 THEN 0
    ELSE (a % 2) * (b % 2) + 2 * BitAnd(a \div 2, b \div 2)

Contains(flags, bit) == BitAnd(flags, bit) # 0

Drop(s, n) == SubSeq(s, n + 1, Len(s))
Take(s, n) == SubSeq(s, 1, n)

IsPrefix(s, t) == Len(s) <= Len(t) /\ s = Take(t, Len(s))

\* ------------------------------------------------------------ frame codec
\* enumflags2 bit values
DataFlagsAll == 8 + 1          \* Padded = 0x08 | EndStream = 0x01
HeadersFlagsAll == 32 + 8 + 4 + 1      \* Priority = 0x20 | Padded = 0x08 | EndHeaders = 0x04 | EndStream = 0x01
SettingsFlagsAll == 1      \* Ack = 0x01
PingFlagsAll == 1          \* Ack = 0x01
Ack == 1

\* (mutant: BitFlags::empty() whatever the bits)
FromBitsEmpty(all, bits) == 0

\* (mutant: every bit of the flags byte kept)
FromBitsKept(all, bits) == bits

\* BitFlags::<T>::from_bits_truncate(bits): the bits T defines, the others dropped
FromBitsTruncate(all, bits) == BitAnd(bits, all)

\* FrameType values: a flagged variant carries its typed flags as their bits,
\* Unknown carries the EncodedFrameType it was decoded from.
Flagged(variant, bits) == [variant |-> variant, flags |-> bits]
Plain(variant) == [variant |-> variant]
Unknown(ty, flags) == [variant |-> "Unknown", ft |-> [ty |-> ty, flags |-> flags]]

\* FrameType::encode
FrameTypeEncode(t) ==
    CASE t.variant = "Data" -> [ty |-> 0, flags |-> t.flags]
      [] t.variant = "Headers" -> [ty |-> 1, flags |-> t.flags]
      [] t.variant = "Priority" -> [ty |-> 2, flags |-> 0]
      [] t.variant = "RstStream" -> [ty |-> 3, flags |-> 0]
      [] t.variant = "Settings" -> [ty |-> 4, flags |-> t.flags]
      [] t.variant = "PushPromise" -> [ty |-> 5, flags |-> 0]
      [] t.variant = "Ping" -> [ty |-> 6, flags |-> t.flags]
      [] t.variant = "GoAway" -> [ty |-> 7, flags |-> 0]
      [] t.variant = "WindowUpdate" -> [ty |-> 8, flags |-> 0]
      [] t.variant = "Continuation" -> [ty |-> 9, flags |-> 0]
      [] t.variant = "Unknown" -> t.ft

\* FrameType::decode
FrameTypeDecode(ft) ==
    CASE ft.ty = 0 -> Flagged("Data", FromBitsTruncate(DataFlagsAll, ft.flags))
      [] ft.ty = 1 -> Flagged("Headers", FromBitsTruncate(HeadersFlagsAll, ft.flags))
      [] ft.ty = 2 -> Plain("Priority")
      [] ft.ty = 3 -> Plain("RstStream")
      [] ft.ty = 4 -> Flagged("Settings", FromBitsTruncate(SettingsFlagsAll, ft.flags))
      [] ft.ty = 5 -> Plain("PushPromise")
      [] ft.ty = 6 -> Flagged("Ping", FromBitsTruncate(PingFlagsAll, ft.flags))
      [] ft.ty = 7 -> Plain("GoAway")
      [] ft.ty = 8 -> Plain("WindowUpdate")
      [] ft.ty = 9 -> Plain("Continuation")
      [] OTHER -> Unknown(ft.ty, ft.flags)

\* StreamId::CONNECTION
CONNECTION == 0

\* (mutant: the reserved bit masked off instead of refused)
StreamIdTryFromMasked(value) ==
    [ok |-> TRUE, id |-> (value.hi % 32768) * 65536 + value.lo]

\* impl TryFrom<u32> for StreamId: value & 0x8000_0000 != 0 is an error.
\* The u32 is held as its two 16-bit halves, value = hi * 65536 + lo, and the
\* id of a StreamId (31 bits) as its number.
StreamIdTryFrom(value) ==
    IF BitAnd(value.hi, 32768) # 0 \/ BitAnd(value.lo, 0) # 0
    THEN [ok |-> FALSE, err |-> value]
    ELSE [ok |-> TRUE, id |-> value.hi * 65536 + value.lo]

\* Frame::new
FrameNew(frame_type, stream_id) ==
    [frame_type |-> frame_type, reserved |-> 0, stream_id |-> stream_id, len |-> 0]

\* Frame::with_len
WithLen(frame, len) == [frame EXCEPT !.len = len]

\* (mutant: the stream id read little-endian)
ParseReservedAndStreamIdLE(b) ==
    [reserved |-> b[1] \div 128,
     stream_id |-> (b[4] % 128) * 16777216 + b[3] * 65536 + b[2] * 256 + b[1]]

\* parse_reserved_and_stream_id: 1 reserved bit, then 31 bits of stream id
ParseReservedAndStreamId(b) ==
    [reserved |-> b[1] \div 128,
     stream_id |-> (b[1] % 128) * 16777216 + b[2] * 65536 + b[3] * 256 + b[4]]

\* Frame::parse.  Every nom parser in it is a streaming one, so the only error
\* it can produce is Incomplete, exactly when fewer than 9 bytes are there.
FrameParse(i) ==
    IF Len(i) < HeaderLen THEN [status |-> "Incomplete"]
    ELSE LET rs == ParseReservedAndStreamId(SubSeq(i, 6, 9)) IN
         [status |-> "Ok",
          rest |-> Drop(i, HeaderLen),
          frame |-> [frame_type |-> FrameTypeDecode([ty |-> i[4], flags |-> i[5]]),
                     reserved |-> rs.reserved,
                     stream_id |-> rs.stream_id,
                     len |-> i[1] * 65536 + i[2] * 256 + i[3]]]

\* The 9 header bytes of a frame, as write_frame gets them from
\* frame.into_piece(..): length as 24 bits big-endian, type, flags, then the
\* stream id as 32 bits big-endian with the reserved bit 0 (the layout
\* Frame::write of parse.rs writes too).
FrameIntoPiece(frame) ==
    LET ft == FrameTypeEncode(frame.frame_type) IN
    << (frame.len \div 65536) % 256, (frame.len \div 256) % 256, frame.len % 256,
       ft.ty, ft.flags,
       (frame.stream_id \div 16777216) % 256, (frame.stream_id \div 65536) % 256,
       (frame.stream_id \div 256) % 256, frame.stream_id % 256 >>

\* (mutant: the header written with the len the caller's Frame carried)
WriteFrameCallerLen(frame, payload) == FrameIntoPiece(frame) \o payload

\* Conn::write_frame: the bytes of one writev_all_owned call
WriteFrame(frame, payload) ==
    FrameIntoPiece(WithLen(frame, Len(payload))) \o payload

\* impl From<FrameType> for FrameT
FrameT(frame_type) == frame_type.variant

\* ------------------------------------------------------------------ events
NoFrame == [none |-> TRUE]

\* Ev::Frame { frame, payload }
EvFrame(frame, payload) == [kind |-> "Frame", frame |-> frame, payload |-> payload]

\* the Frame events of a sequence of events, as [frame, payload]
RECURSIVE FramesOf(_)
FramesOf(evs) ==
    IF evs = <<>> THEN <<>>
    ELSE IF Head(evs).kind = "Frame"
         THEN <<[frame |-> Head(evs).frame, payload |-> Head(evs).payload]>>
              \o FramesOf(Tail(evs))
         ELSE FramesOf(Tail(evs))

\* ---------------------------------------------------------------- channel
\* (mutant: an unbounded channel)
CanSendUnbounded(ch) == TRUE

\* (mutant: recv() that leaves the event in the channel)
ChanRecvPeek(ch) == [ev |-> Head(ch), ch |-> ch]

\* ev_tx.send(ev).await completes once the channel holds fewer than its
\* capacity of events
CanSend(ch) == Len(ch) < ChannelCapacity
ChanSend(ch, ev) == Append(ch, ev)
\* ev_rx.recv(): the oldest event, which leaves the channel
ChanRecv(ch) == [ev |-> Head(ch), ch |-> Tail(ch)]

\* The sender is dropped when recv_fut ends, whichever way it ends: recv()
\* yields None once the channel is empty.
SenderDropped == rpc \in {"done", "panicked", "failed"}

\* ----------------------------------------------------------------- reader
\* read_into(..) returned Err: `let n = res?` leaves recv_fut with the error
ReadErr == 0 - 1

\* What one read_into(16384, &mut r) can return, given the bytes the peer has
\* written and the state of the connection: n > 0 bytes, 0 at end of stream,
\* or an error (ReadErr).  With the connection open and nothing written, it pends.
ReadResults ==
    IF link = "reset" THEN {ReadErr}
    ELSE IF wire # <<>> THEN 1 .. Min(Len(wire), ReadChunk)
    ELSE IF link = "closed" THEN {0}
    ELSE {}

\* (mutant: the bytes that did arrive are delivered as the payload)
PayloadEofShort(frame, buf) ==
    [rpc |-> "send", res_buf |-> <<>>, cur |-> [frame |-> frame, payload |-> buf]]

\* The reader's outcome on a zero-byte read with the payload incomplete
\* (lib.rs 104-110): panic
PayloadEof(frame, buf) ==
    [rpc |-> "panicked", res_buf |-> buf, cur |-> NoFrame]

\* lib.rs 98, 114-119: with the payload buffered, split it off; else read more
PayloadStep(frame, buf) ==
    IF Len(buf) < frame.len
    THEN [rpc |-> "read_payload", res_buf |-> buf,
          cur |-> [frame |-> frame, payload |-> <<>>]]
    ELSE [rpc |-> "send", res_buf |-> Drop(buf, frame.len),
          cur |-> [frame |-> frame, payload |-> Take(buf, frame.len)]]

\* (mutant: the loop never ends at end of stream)
LoopNeverEnds(buf, eofFlag) == FALSE

\* lib.rs 85-87: end of stream with nothing buffered ends the loop
LoopEnds(buf, eofFlag) == eofFlag /\ buf = <<>>

\* lib.rs 85-138: from the end-of-stream check to the next await
Dispatch(buf, eofFlag) ==
    IF LoopEnds(buf, eofFlag)
    THEN [rpc |-> "done", res_buf |-> buf, cur |-> NoFrame]
    ELSE LET p == FrameParse(buf) IN
         IF p.status = "Incomplete"
         THEN [rpc |-> IF eofFlag THEN "panicked" ELSE "read_header",
               res_buf |-> buf, cur |-> NoFrame]
         ELSE PayloadStep(p.frame, p.rest)

SetReader(r) ==
    /\ rpc' = r.rpc
    /\ res_buf' = r.res_buf
    /\ cur' = r.cur

\* lib.rs 72-83, then 85-138: the read at the top of the loop
ReaderReadHeader ==
    /\ rpc = "read_header"
    /\ ~eof
    /\ \E n \in ReadResults :
         IF n = ReadErr
         THEN \* res? returns the error, recv_fut.await.unwrap() panics
              /\ rpc' = "failed"
              /\ UNCHANGED <<eof, res_buf, cur, wire>>
         ELSE /\ wire' = Drop(wire, n)
              /\ eof' = (n = 0)
              /\ SetReader(Dispatch(res_buf \o Take(wire, n), n = 0))
    /\ UNCHANGED <<peerTodo, sent, partial, link, ev_rx>>
    /\ UNCHANGED <<consumerVars, probe>>

\* lib.rs 98-112: one read of the payload loop
ReaderReadPayload ==
    /\ rpc = "read_payload"
    /\ \E n \in ReadResults :
         IF n = ReadErr
         THEN /\ rpc' = "failed"
              /\ UNCHANGED <<eof, res_buf, cur, wire>>
         ELSE /\ wire' = Drop(wire, n)
              /\ eof' = (eof \/ n = 0)
              /\ IF n = 0
                 THEN SetReader(PayloadEof(cur.frame, res_buf))
                 ELSE SetReader(PayloadStep(cur.frame, res_buf \o Take(wire, n)))
    /\ UNCHANGED <<peerTodo, sent, partial, link, ev_rx>>
    /\ UNCHANGED <<consumerVars, probe>>

\* lib.rs 122: ev_tx.send(Ev::Frame { frame, payload }).await completes.  The
\* loop then awaits the next read (72-75) or, with eof set, goes on at once
\* with what is buffered (85-138).
ReaderSend ==
    /\ rpc = "send"
    /\ CanSend(ev_rx)
    /\ ev_rx' = ChanSend(ev_rx, EvFrame(cur.frame, cur.payload))
    /\ IF eof
       THEN SetReader(Dispatch(res_buf, eof))
       ELSE /\ rpc' = "read_header"
            /\ cur' = NoFrame
            /\ UNCHANGED res_buf
    /\ UNCHANGED eof
    /\ UNCHANGED peerVars
    /\ UNCHANGED <<consumerVars, probe>>

Reader == ReaderReadHeader \/ ReaderReadPayload \/ ReaderSend

\* ------------------------------------------------------------------- peer
\* The peer writes its next frame, whole, once the consumer has written what
\* the peer waits for (`after` writes).
PeerSend ==
    /\ link = "open"
    /\ peerTodo # <<>>
    /\ Len(w) >= Head(peerTodo).after
    /\ wire' = wire \o WriteFrame(Head(peerTodo).frame, Head(peerTodo).payload)
    /\ sent' = Append(sent, [frame |-> WithLen(Head(peerTodo).frame,
                                               Len(Head(peerTodo).payload)),
                             payload |-> Head(peerTodo).payload])
    /\ peerTodo' = Tail(peerTodo)
    /\ UNCHANGED <<partial, link>>
    /\ UNCHANGED <<readerVars, ev_rx>>
    /\ UNCHANGED <<consumerVars, probe>>

\* The peer hangs up: at a frame boundary (k = 0), or after the first k bytes
\* of its next frame.
PeerHangup ==
    /\ link = "open"
    /\ \E k \in 0 .. (IF peerTodo = <<>> THEN 0
                      ELSE Len(WriteFrame(Head(peerTodo).frame,
                                          Head(peerTodo).payload)) - 1) :
         /\ partial' = k
         /\ wire' = IF k = 0 THEN wire
                    ELSE wire \o Take(WriteFrame(Head(peerTodo).frame,
                                                 Head(peerTodo).payload), k)
    /\ link' = "closed"
    /\ peerTodo' = <<>>
    /\ UNCHANGED sent
    /\ UNCHANGED <<readerVars, ev_rx>>
    /\ UNCHANGED <<consumerVars, probe>>

\* The connection breaks: what was in flight is lost and reads fail.
PeerReset ==
    /\ link = "open"
    /\ link' = "reset"
    /\ wire' = <<>>
    /\ peerTodo' = <<>>
    /\ UNCHANGED <<sent, partial>>
    /\ UNCHANGED <<readerVars, ev_rx>>
    /\ UNCHANGED <<consumerVars, probe>>

Peer == PeerSend \/ PeerHangup \/ PeerReset

\* --------------------------------------------------------------- consumer
Waiting == cpc \in {"waiting", "hs_wait1", "hs_wait2"}

\* lib.rs 166: let deadline = Instant::now() + self.config.timeout
Deadline(t) == t + DefaultTimeout

\* (mutant: every iteration waits a full timeout, as timeout(..) would)
DeadlineRestarted(d, t, o) == IF o = "continue" THEN t + DefaultTimeout ELSE d

\* lib.rs 166, 171-172: the deadline is computed before the loop; an iteration
\* that received an event (outcome o, at time t) leaves it as it is
DeadlineKept(d, t, o) == d

\* lib.rs 172: timeout_at(deadline, ..) gives up once the deadline is reached
Elapsed(t, d) == t >= d

\* (mutant: any frame returned, whatever its kind)
WaitOutcomeAnyFrame(ev, ts) ==
    IF ev.kind = "Frame" THEN "return"
    ELSE IF ev.kind = "IoError" THEN "ioerror" ELSE "eof"

\* lib.rs 182-196: what wait_for_frame does with an event it received
WaitOutcome(ev, ts) ==
    IF ev.kind = "Frame"
    THEN IF FrameT(ev.frame.frame_type) \in ts THEN "return" ELSE "continue"
    ELSE IF ev.kind = "IoError" THEN "ioerror" ELSE "eof"

\* (mutant: the first check left out)
FirstSettingsUnchecked(frame) == FALSE

\* (mutant: the second check asks for the ACK flag, as RFC 9113 3.4 has it)
SecondSettingsWithoutAckRejected(frame) == ~Contains(frame.frame_type.flags, Ack)

\* lib.rs 219-226: handshake's check of the first SETTINGS frame
FirstSettingsRejected(frame) == Contains(frame.frame_type.flags, Ack)

\* lib.rs 240-247: handshake's check of the second SETTINGS frame
SecondSettingsRejected(frame) == Contains(frame.frame_type.flags, Ack)

\* Where the caller of wait_for_frame goes on with the frame it got.
AfterReturn(pc, frame) ==
    CASE pc = "waiting" -> [cpc |-> "idle", failure |-> "none"]
      [] pc = "hs_wait1" ->
            IF FirstSettingsRejected(frame)
            THEN [cpc |-> "panicked", failure |-> "ack"]
            ELSE [cpc |-> "hs_ack", failure |-> "none"]
      [] pc = "hs_wait2" ->
            IF SecondSettingsRejected(frame)
            THEN [cpc |-> "panicked", failure |-> "ack"]
            ELSE [cpc |-> "hs_ok", failure |-> "none"]

\* lib.rs 165-169: a test calls wait_for_frame(ts)
WaitForFrameCall ==
    /\ cpc = "idle"
    /\ \E ts \in {{"Settings"}, {"Data", "Unknown"}} : types' = ts
    /\ cpc' = "waiting"
    /\ now' = 0
    /\ deadline' = Deadline(now')
    /\ last_frame' = NoFrame
    /\ UNCHANGED <<failure, received, returned, w>>
    /\ UNCHANGED <<peerVars, readerVars, ev_rx, probe>>

\* lib.rs 172, 182-196: recv() yields an event
WaitRecv ==
    /\ Waiting
    /\ ev_rx # <<>>
    /\ LET r == ChanRecv(ev_rx)
           o == WaitOutcome(r.ev, types)
       IN /\ ev_rx' = r.ch
          /\ received' = Append(received, r.ev)
          /\ deadline' = DeadlineKept(deadline, now, o)
          /\ CASE o = "return" ->
                    /\ returned' = Append(returned,
                                           [frame |-> r.ev.frame,
                                            payload |-> r.ev.payload,
                                            types |-> types,
                                            at |-> Len(received')])
                    /\ cpc' = AfterReturn(cpc, r.ev.frame).cpc
                    /\ failure' = AfterReturn(cpc, r.ev.frame).failure
                    /\ UNCHANGED last_frame
               [] o = "continue" ->
                    /\ last_frame' = r.ev.frame
                    /\ UNCHANGED <<returned, cpc, failure>>
               [] OTHER ->
                    /\ cpc' = "panicked"
                    /\ failure' = o
                    /\ UNCHANGED <<returned, last_frame>>
    /\ UNCHANGED <<types, now, w>>
    /\ UNCHANGED <<peerVars, readerVars, probe>>

\* (mutant: the closed channel only noticed at the deadline)
WaitClosedAtDeadline ==
    /\ Waiting
    /\ ev_rx = <<>>
    /\ SenderDropped
    /\ Elapsed(now, deadline)
    /\ cpc' = "panicked"
    /\ failure' = "closed"
    /\ UNCHANGED <<types, last_frame, now, deadline, received, returned, w>>
    /\ UNCHANGED <<peerVars, readerVars, ev_rx, probe>>

\* lib.rs 177-181: recv() yields None, the channel is closed and empty
WaitClosed ==
    /\ Waiting
    /\ ev_rx = <<>>
    /\ SenderDropped
    /\ cpc' = "panicked"
    /\ failure' = "closed"
    /\ UNCHANGED <<types, last_frame, now, deadline, received, returned, w>>
    /\ UNCHANGED <<peerVars, readerVars, ev_rx, probe>>

\* (mutant: the timeout takes the reader task down with it)
WaitTimeoutAbortsReader ==
    /\ Waiting
    /\ ev_rx = <<>>
    /\ ~SenderDropped
    /\ Elapsed(now, deadline)
    /\ cpc' = "panicked"
    /\ failure' = "timeout"
    /\ rpc' = "done"
    /\ UNCHANGED <<types, last_frame, now, deadline, received, returned, w>>
    /\ UNCHANGED <<peerVars, eof, res_buf, cur, ev_rx, probe>>

\* lib.rs 173-175: the deadline passes with recv() pending
WaitTimeout ==
    /\ Waiting
    /\ ev_rx = <<>>
    /\ ~SenderDropped
    /\ Elapsed(now, deadline)
    /\ cpc' = "panicked"
    /\ failure' = "timeout"
    /\ UNCHANGED <<types, last_frame, now, deadline, received, returned, w>>
    /\ UNCHANGED <<peerVars, readerVars, ev_rx, probe>>

\* Time passes while a wait is pending, up to its deadline, where the timer
\* of timeout_at fires.
Tick ==
    /\ Waiting
    /\ ~Elapsed(now, deadline)
    /\ now' = now + 1
    /\ UNCHANGED <<cpc, failure, types, last_frame, deadline, received, returned, w>>
    /\ UNCHANGED <<peerVars, readerVars, ev_rx, probe>>

\* ------------------------------------------------------------------- Spec
\* The frames a peer engine writes with write_frame: Frame::new(type, stream)
\* and a payload.
PeerFrames ==
    { [frame |-> FrameNew(Flagged("Settings", 0), CONNECTION), payload |-> <<>>, after |-> 0],
      [frame |-> FrameNew(Flagged("Data", 9), 1), payload |-> <<7, 255>>, after |-> 0],
      [frame |-> FrameNew(Unknown(255, 165), 2147483647), payload |-> <<0>>, after |-> 0] }

RECURSIVE SeqsUpTo(_, _)
\* the sequences over S of length at most n
SeqsUpTo(S, n) ==
    IF n = 0 THEN {<<>>}
    ELSE LET shorter == SeqsUpTo(S, n - 1)
         IN shorter \cup {Append(q, x) : q \in shorter, x \in S}

\* no call of the codec on its own
NoProbe == [call |-> "none"]

InitEngine ==
    /\ sent = <<>>
    /\ partial = 0
    /\ wire = <<>>
    /\ link = "open"
    /\ rpc = "read_header"
    /\ eof = FALSE
    /\ res_buf = <<>>
    /\ cur = NoFrame
    /\ ev_rx = <<>>
    /\ failure = "none"
    /\ types = {}
    /\ last_frame = NoFrame
    /\ now = 0
    /\ deadline = 0
    /\ received = <<>>
    /\ returned = <<>>
    /\ w = <<>>

\* A test that calls wait_for_frame again and again, against a peer that
\* writes a list of frames.
Init ==
    /\ InitEngine
    /\ peerTodo \in SeqsUpTo(PeerFrames, MaxFrames)
    /\ cpc = "idle"
    /\ probe = NoProbe

Next ==
    \/ ReaderReadHeader
    \/ ReaderReadPayload
    \/ ReaderSend
    \/ PeerSend
    \/ PeerHangup
    \/ PeerReset
    \/ WaitForFrameCall
    \/ WaitRecv
    \/ WaitClosed
    \/ WaitTimeout
    \/ Tick

Spec == Init /\ [][Next]_vars

\* The executor polls a task that can run and tokio's timer fires: a pending
\* wait_for_frame is resumed when an event, the end of the channel or its
\* deadline is there, and time does not stand still.
\* The peer of these runs writes SETTINGS and DATA frames, which a wait
\* either asks for or skips.
FairInit ==
    /\ Init
    /\ \A i \in 1 .. Len(peerTodo) : FrameT(peerTodo[i].frame.frame_type) # "Unknown"

FairSpec ==
    /\ FairInit
    /\ [][Next]_vars
    /\ WF_vars(Tick)
    /\ WF_vars(WaitRecv)
    /\ WF_vars(WaitClosed)
    /\ WF_vars(WaitTimeout)

\* C3: a pending wait_for_frame keeps the deadline computed when it was called
\* (call time + config.timeout) whatever it receives, is never still pending
\* after that deadline, fails only by timeout at the deadline, and always ends.
C3_WaitEndsByDeadline ==
    /\ [](Waiting => (deadline = DefaultTimeout /\ now <= DefaultTimeout))
    /\ [](failure = "timeout" => (cpc = "panicked" /\ now = DefaultTimeout))
    /\ [](Waiting => <>(~Waiting))

\* A wait timed out although the peer kept sending frames, all of other kinds.
C3_Witness ==
    /\ failure = "timeout"
    /\ Len(received) = 2
    /\ returned = <<>>

\* ----------------------------------------------------- claims on the reader
\* every event the reader has sent on the channel, in order
Emitted == received \o ev_rx

\* C1: the Frame events the consumer has received are, at every moment, a
\* prefix of the complete frames the peer wrote, in wire order: none is
\* reordered, duplicated or dropped on the way.
C1_ReceivedIsPrefixOfWire == IsPrefix(FramesOf(received), sent)

\* Two different frames were received.
C1_Witness ==
    /\ Len(received) = 2
    /\ received[1] # received[2]
    /\ FramesOf(received) = sent

\* C2: when the peer writes frames with write_frame and then closes, however
\* the bytes are split across reads the reader does not abort, what it emits
\* is a prefix of the written frames, and once it has ended it has emitted
\* exactly the written frames: same type, stream id, length and payload.
C2_WrittenFramesReadBack ==
    (link # "reset" /\ partial = 0) =>
        /\ rpc \notin {"panicked", "failed"}
        /\ IsPrefix(FramesOf(Emitted), sent)
        /\ (rpc = "done" =>
              /\ FramesOf(Emitted) = sent
              /\ \A i \in 1 .. Len(sent) :
                    /\ Emitted[i].kind = "Frame"
                    /\ Emitted[i].frame.len = Len(sent[i].payload)
                    /\ Len(Emitted[i].payload) = Emitted[i].frame.len)

\* Two written frames, one with a payload and a 31-bit stream id, were read
\* back and the reader ended.
C2_Witness ==
    /\ rpc = "done"
    /\ Len(sent) = 2
    /\ sent[1].frame.stream_id = 2147483647
    /\ sent[2].payload = <<7, 255>>
    /\ FramesOf(received) = sent

\* C7: when the peer hangs up inside a frame (after 1 to 8 bytes of its header,
\* or after the header and before the whole payload), the reader never ends
\* cleanly and never emits an event for that frame: what it emits stays a
\* prefix of the complete frames, and the only way it ends is by panicking.
C7_TruncatedFrameNotDelivered ==
    partial > 0 =>
        /\ rpc \notin {"done", "failed"}
        /\ IsPrefix(FramesOf(Emitted), sent)
        /\ ((eof /\ rpc \notin {"send", "read_payload"}) => rpc = "panicked")

\* The peer wrote one frame, then a header announcing 2 bytes and 1 byte of
\* payload, and hung up: the reader panicked having emitted the first only.
C7_Witness ==
    /\ partial = HeaderLen + 1
    /\ rpc = "panicked"
    /\ Len(sent) = 1
    /\ FramesOf(Emitted) = sent

\* C8: when the peer closes at a frame boundary the reader does not abort,
\* never puts an Eof (or any non-Frame) event on the channel, and ends cleanly
\* having emitted one Frame event per complete frame, which closes the channel.
C8_CleanCloseAtFrameBoundary ==
    (link = "closed" /\ partial = 0) =>
        /\ rpc \notin {"panicked", "failed"}
        /\ \A i \in 1 .. Len(Emitted) : Emitted[i].kind = "Frame"
        /\ Len(Emitted) <= Len(sent)
        /\ (rpc = "done" => (Len(Emitted) = Len(sent) /\ SenderDropped))
        /\ ((eof /\ rpc # "send") => rpc = "done")

\* One SETTINGS frame of length 0, then close: one event, then the end.
C8_Witness ==
    /\ link = "closed"
    /\ partial = 0
    /\ rpc = "done"
    /\ Len(received) = 1
    /\ received[1].frame.len = 0
    /\ received[1].frame.frame_type.variant = "Settings"
    /\ ev_rx = <<>>

\* C9 (as claimed): once a read has failed with an I/O error, the reader has
\* put an IoError event on the channel.
C9_IoErrorEventEmitted ==
    rpc = "failed" => \E i \in 1 .. Len(Emitted) : Emitted[i].kind = "IoError"

\* C10: at most one event waits in the channel, and while one waits the
\* reader's next send cannot complete.
C10_ChannelHoldsAtMostOne ==
    /\ Len(ev_rx) <= 1
    /\ ((rpc = "send" /\ ev_rx # <<>>) => ~ENABLED ReaderSend)

\* The reader holds the next frame while the previous event is not yet taken.
C10_Witness ==
    /\ rpc = "send"
    /\ Len(ev_rx) = 1

\* ------------------------------------------------ claims on wait_for_frame
\* The events a call of wait_for_frame took are those after the event the
\* call before it returned: no event is taken between two calls.
TakenFrom(k) == IF k = 1 THEN 1 ELSE returned[k - 1].at + 1
TakenSinceLastReturn ==
    {j \in 1 .. Len(received) : returned = <<>> \/ j > returned[Len(returned)].at}

Skipped(ev, ts) == ev.kind = "Frame" /\ FrameT(ev.frame.frame_type) \notin ts

\* C14: the frame a call of wait_for_frame(types) returned is the first event
\* it took that is a Frame of one of the types; every event it took before is
\* a Frame of another type, and no later call returns one of those: each call
\* returns an event taken after the one the call before returned.  While a
\* call is pending, all it has taken are Frames of other types.
C14_ReturnsEarliestMatch ==
    /\ \A k \in 1 .. Len(returned) :
          LET r == returned[k] IN
          /\ TakenFrom(k) <= r.at
          /\ r.at <= Len(received)
          /\ received[r.at] = EvFrame(r.frame, r.payload)
          /\ FrameT(r.frame.frame_type) \in r.types
          /\ \A j \in TakenFrom(k) .. r.at - 1 : Skipped(received[j], r.types)
    /\ Waiting => \A j \in TakenSinceLastReturn : Skipped(received[j], types)

\* A call took a frame of another type, then returned the second frame; the
\* next call is pending.
C14_Witness ==
    /\ Len(returned) = 1
    /\ returned[1].at = 2
    /\ received[1] # received[2]
    /\ cpc = "waiting"

\* C15: a pending wait_for_frame that finds the channel closed (the reader has
\* ended and every event was taken) panics there and then, whatever the time
\* left to the deadline, and not by timeout; an IoError event makes it panic
\* too; the call that failed so returned none of the frames it took.
C15_ClosedOrIoErrorIsFatal ==
    /\ (Waiting /\ ev_rx = <<>> /\ SenderDropped) =>
          (ENABLED WaitClosed /\ ~ENABLED WaitTimeout)
    /\ \A ts \in SUBSET {"Settings", "Data", "Unknown"} :
          WaitOutcome([kind |-> "IoError"], ts) = "ioerror"
    /\ failure \in {"closed", "ioerror"} =>
          /\ cpc = "panicked"
          /\ \A j \in TakenSinceLastReturn : Skipped(received[j], types)

\* The channel was found closed before the deadline, after a frame of another
\* type was taken.
C15_Witness ==
    /\ failure = "closed"
    /\ now < deadline
    /\ Len(received) = 1
    /\ returned = <<>>

WritePreface == [op |-> "write_all", frame |-> NoFrame, payload |-> "PREFACE"]
WriteSettings ==
    [op |-> "write_frame",
     frame |-> FrameNew(Flagged("Settings", 0), CONNECTION),
     payload |-> "Settings::default()"]
WriteSettingsAck ==
    [op |-> "write_frame",
     frame |-> FrameNew(Flagged("Settings", Ack), CONNECTION),
     payload |-> "()"]

\* (mutant: the preface left out)
HsSkipPreface ==
    /\ cpc = "hs_preface"
    /\ cpc' = IF link = "reset" THEN "hs_err" ELSE "hs_settings"
    /\ UNCHANGED <<failure, types, last_frame, now, deadline, received, returned, w>>
    /\ UNCHANGED <<peerVars, readerVars, ev_rx, probe>>

\* lib.rs 205-206: self.w.write_all_owned(&preface[..]).await?
HsWritePreface ==
    /\ cpc = "hs_preface"
    /\ IF link = "reset"
       THEN /\ cpc' = "hs_err"
            /\ UNCHANGED w
       ELSE /\ cpc' = "hs_settings"
            /\ w' = Append(w, WritePreface)
    /\ UNCHANGED <<failure, types, last_frame, now, deadline, received, returned>>
    /\ UNCHANGED <<peerVars, readerVars, ev_rx, probe>>

\* lib.rs 208-218: write_frame(Settings, Settings::default()).await?, then the
\* call of wait_for_frame(FrameT::Settings)
HsWriteSettings ==
    /\ cpc = "hs_settings"
    /\ IF link = "reset"
       THEN /\ cpc' = "hs_err"
            /\ UNCHANGED <<w, types, now, deadline, last_frame>>
       ELSE /\ cpc' = "hs_wait1"
            /\ w' = Append(w, WriteSettings)
            /\ types' = {"Settings"}
            /\ now' = 0
            /\ deadline' = Deadline(now')
            /\ last_frame' = NoFrame
    /\ UNCHANGED <<failure, received, returned>>
    /\ UNCHANGED <<peerVars, readerVars, ev_rx, probe>>

\* lib.rs 229-239: write_frame(Settings(Ack), ()).await?, then the second call
\* of wait_for_frame(FrameT::Settings)
HsWriteAck ==
    /\ cpc = "hs_ack"
    /\ IF link = "reset"
       THEN /\ cpc' = "hs_err"
            /\ UNCHANGED <<w, types, now, deadline, last_frame>>
       ELSE /\ cpc' = "hs_wait2"
            /\ w' = Append(w, WriteSettingsAck)
            /\ types' = {"Settings"}
            /\ now' = 0
            /\ deadline' = Deadline(now')
            /\ last_frame' = NoFrame
    /\ UNCHANGED <<failure, received, returned>>
    /\ UNCHANGED <<peerVars, readerVars, ev_rx, probe>>

\* The reader cannot take a step: it has ended, or it awaits bytes the peer
\* has not written, or room in the channel.
ReaderBlocked ==
    CASE rpc \in {"done", "panicked", "failed"} -> TRUE
      [] rpc \in {"read_header", "read_payload"} -> ReadResults = {}
      [] rpc = "send" -> ~CanSend(ev_rx)

\* The peer has nothing it would write now.
PeerQuiet ==
    IF link # "open" \/ peerTodo = <<>> THEN TRUE
    ELSE Len(w) < Head(peerTodo).after

\* Time passes in a wait of the handshake only when the peer, the reader and
\* the channel have nothing for it: reading, parsing and a prompt peer's
\* answer take much less than the timeout of a second.
TickIdle ==
    /\ Waiting
    /\ ~Elapsed(now, deadline)
    /\ ev_rx = <<>>
    /\ ReaderBlocked
    /\ PeerQuiet
    /\ now' = now + 1
    /\ UNCHANGED <<cpc, failure, types, last_frame, deadline, received, returned, w>>
    /\ UNCHANGED <<peerVars, readerVars, ev_rx, probe>>

\* how many frames a peer of the handshake writes, at most
HsMaxFrames == 3

\* The frames a peer of the handshake writes
HsPeerFrames ==
    { [frame |-> FrameNew(Flagged("Settings", 0), CONNECTION), payload |-> <<>>],
      [frame |-> FrameNew(Flagged("Settings", Ack), CONNECTION), payload |-> <<>>],
      [frame |-> FrameNew(Plain("WindowUpdate"), CONNECTION), payload |-> <<0, 0, 0, 1>>] }

\* The peer writes its first frame when the connection is there, and each
\* later one once it has the client's preface and SETTINGS (2 writes).
Gated(frames) ==
    [i \in 1 .. Len(frames) |->
        [frame |-> frames[i].frame, payload |-> frames[i].payload,
         after |-> IF i = 1 THEN 0 ELSE 2]]

\* A test that calls handshake(), against a peer that writes a list of frames.
HsInit ==
    /\ InitEngine
    /\ peerTodo \in {Gated(q) : q \in SeqsUpTo(HsPeerFrames, HsMaxFrames)}
    /\ cpc = "hs_preface"
    /\ probe = NoProbe

HsNext ==
    \/ ReaderReadHeader
    \/ ReaderReadPayload
    \/ ReaderSend
    \/ PeerSend
    \/ PeerHangup
    \/ PeerReset
    \/ HsWritePreface
    \/ HsWriteSettings
    \/ HsWriteAck
    \/ WaitRecv
    \/ WaitClosed
    \/ WaitTimeout
    \/ TickIdle

HandshakeSpec == HsInit /\ [][HsNext]_vars

\* the frame types of the whole list the peer set out to write
RECURSIVE TypesOf(_)
TypesOf(q) ==
    IF q = <<>> THEN <<>> ELSE <<Head(q).frame.frame_type>> \o TypesOf(Tail(q))

PeerScript == TypesOf(sent) \o TypesOf(peerTodo)

\* C4 (as claimed): against a peer that keeps the connection open and writes
\* SETTINGS without ACK and, once it has the client's SETTINGS, a second
\* SETTINGS without ACK, handshake() does not fail.
C4_HandshakeSucceeds ==
    (/\ link = "open"
     /\ PeerScript = <<Flagged("Settings", 0), Flagged("Settings", 0)>>)
        => cpc \notin {"panicked", "hs_err"}

\* C5: if the first SETTINGS frame handshake() gets carries ACK, handshake()
\* has panicked, and it has written no SETTINGS frame with ACK.
C5_FirstSettingsAckIsFatal ==
    (Len(returned) >= 1 /\ Contains(returned[1].frame.frame_type.flags, Ack)) =>
        /\ cpc = "panicked"
        /\ failure = "ack"
        /\ Len(returned) = 1
        /\ \A i \in 1 .. Len(w) : w[i] # WriteSettingsAck

\* The first SETTINGS frame came with ACK, after a frame of another kind.
C5_Witness ==
    /\ Len(received) = 2
    /\ Len(returned) = 1
    /\ Contains(returned[1].frame.frame_type.flags, Ack)
    /\ cpc = "panicked"

HandshakeOkReached == cpc = "hs_ok"

\* C18: what handshake() has written is at every moment a prefix of: the
\* preface, a SETTINGS frame on stream 0 without ACK, a SETTINGS frame on
\* stream 0 with ACK and the empty payload (); and the third is written only
\* when the first wait returned a SETTINGS frame without ACK the peer wrote.
C18_HandshakeWriteOrder ==
    /\ Len(w) <= 3
    /\ Len(w) >= 1 => (w[1].op = "write_all" /\ w[1].payload = "PREFACE")
    /\ Len(w) >= 2 =>
          /\ w[2].op = "write_frame"
          /\ w[2].frame.frame_type = [variant |-> "Settings", flags |-> 0]
          /\ w[2].frame.stream_id = 0
    /\ Len(w) >= 3 =>
          /\ w[3].op = "write_frame"
          /\ w[3].frame.frame_type = [variant |-> "Settings", flags |-> 1]
          /\ w[3].frame.stream_id = 0
          /\ w[3].payload = "()"
          /\ Len(returned) >= 1
          /\ returned[1].frame.frame_type = [variant |-> "Settings", flags |-> 0]
          /\ \E i \in 1 .. Len(sent) : sent[i].frame = returned[1].frame

\* handshake() wrote all three and returned Ok.
C18_Witness ==
    /\ cpc = "hs_ok"
    /\ Len(w) = 3
    /\ Len(returned) = 2

\* C19 (as claimed): when the first frame handshake() receives from the peer
\* is not a SETTINGS frame, handshake() does not return Ok.
C19_FirstFrameMustBeSettings ==
    (/\ Len(received) >= 1
     /\ received[1].kind = "Frame"
     /\ FrameT(received[1].frame.frame_type) # "Settings")
        => cpc # "hs_ok"

\* C20 (as claimed): when handshake() has returned Ok, the peer has written a
\* SETTINGS frame with ACK after the client's SETTINGS frame (the second
\* write) was written.
C20_OkOnlyAfterPeerAck ==
    cpc = "hs_ok" =>
        \E i \in 1 .. Len(sent) :
            /\ sent[i].frame.frame_type = [variant |-> "Settings", flags |-> 1]
            /\ (i > 1 \/ Len(w) >= 2)

\* ------------------------------------------------- the codec, on its own
\* A call of one function of the codec with an argument drawn at the start;
\* the step that makes the call records what it returned and, for the two
\* directions of the frame type codec and for write_frame, what the function
\* of the other direction makes of that.
MaxPayload == 2

Byte == 0 .. 255

\* the values of EncodedFrameType { ty: u8, flags: u8 }
EncodedFrameTypes == [ty : Byte, flags : Byte]

\* the values of BitFlags<T>, as their bits, for the T of all bits `all`
BitFlagsOf(all) == {f \in 0 .. all : BitAnd(f, all) = f}

\* the values of FrameType
FrameTypes ==
    {Flagged("Data", f) : f \in BitFlagsOf(DataFlagsAll)}
    \cup {Flagged("Headers", f) : f \in BitFlagsOf(HeadersFlagsAll)}
    \cup {Flagged("Settings", f) : f \in BitFlagsOf(SettingsFlagsAll)}
    \cup {Flagged("Ping", f) : f \in BitFlagsOf(PingFlagsAll)}
    \cup {Plain(v) : v \in {"Priority", "RstStream", "PushPromise", "GoAway",
                            "WindowUpdate", "Continuation"}}
    \cup {Unknown(ft.ty, ft.flags) : ft \in EncodedFrameTypes}

\* u32 values around the ends of the range and of each half
HalfSamples == {0, 1, 2, 255, 256, 32767, 32768, 32769, 65534, 65535}
U32Samples == [hi : HalfSamples, lo : HalfSamples]

\* the payloads of at most MaxPayload bytes, and one of more than 255 bytes
Payloads == SeqsUpTo({0, 255}, MaxPayload) \cup {[i \in 1 .. 300 |-> i % 256]}

\* the frames a caller hands to write_frame: whatever type, stream and len
CallerFrames ==
    {WithLen(FrameNew(t, id), len) :
        t \in {Flagged("Settings", 0), Flagged("Data", 9), Unknown(255, 165)},
        id \in {CONNECTION, 2147483647},
        len \in {0, 5, 16777215}}

ProbeOf(call, arg) == [call |-> call, arg |-> arg, done |-> FALSE]

CodecInit ==
    /\ InitEngine
    /\ peerTodo = <<>>
    /\ cpc = "idle"
    /\ \/ \E ft \in EncodedFrameTypes : probe = ProbeOf("decode", ft)
       \/ \E t \in FrameTypes : probe = ProbeOf("encode", t)
       \/ \E v \in U32Samples : probe = ProbeOf("try_from", v)
       \/ \E f \in CallerFrames, p \in Payloads :
             probe = ProbeOf("write_frame", [frame |-> f, payload |-> p])

Done(out, back) ==
    [call |-> probe.call, arg |-> probe.arg, done |-> TRUE,
     out |-> out, back |-> back]

\* FrameType::decode(ft), and encode() of what it returns
DecodeCall ==
    /\ probe.call = "decode" /\ ~probe.done
    /\ LET t == FrameTypeDecode(probe.arg) IN probe' = Done(t, FrameTypeEncode(t))
    /\ UNCHANGED <<peerVars, readerVars, ev_rx, consumerVars>>

\* t.encode(), and FrameType::decode of what it returns
EncodeCall ==
    /\ probe.call = "encode" /\ ~probe.done
    /\ LET ft == FrameTypeEncode(probe.arg) IN probe' = Done(ft, FrameTypeDecode(ft))
    /\ UNCHANGED <<peerVars, readerVars, ev_rx, consumerVars>>

\* StreamId::try_from(value)
TryFromCall ==
    /\ probe.call = "try_from" /\ ~probe.done
    /\ probe' = Done(StreamIdTryFrom(probe.arg), NoFrame)
    /\ UNCHANGED <<peerVars, readerVars, ev_rx, consumerVars>>

\* write_frame(frame, payload), and Frame::parse of the bytes it writes
WriteFrameCall ==
    /\ probe.call = "write_frame" /\ ~probe.done
    /\ LET bytes == WriteFrame(probe.arg.frame, probe.arg.payload)
       IN probe' = Done(bytes, FrameParse(bytes))
    /\ UNCHANGED <<peerVars, readerVars, ev_rx, consumerVars>>

CodecNext ==
    \/ DecodeCall
    \/ EncodeCall
    \/ TryFromCall
    \/ WriteFrameCall

CodecSpec == CodecInit /\ [][CodecNext]_vars

Decoded == probe.call = "decode" /\ probe.done
Encoded == probe.call = "encode" /\ probe.done

\* C11 (as claimed): decoding any (type byte, flags byte) pair and encoding
\* the result gives the identical pair back.
C11_DecodeEncodeIdentity == Decoded => probe.back = probe.arg

\* the flag bits a type byte has, by RFC 9113 section 6
DefinedFlags(ty) ==
    CASE ty = 0 -> 9
      [] ty = 1 -> 45
      [] ty \in {4, 6} -> 1
      [] ty \in {2, 3, 5, 7, 8, 9} -> 0
      [] OTHER -> 255

\* C11 (amended): decoding a pair and encoding the result gives the type byte
\* back, and the flags byte with only the bits defined for that type kept;
\* the pair comes back identical when the type is not a known code or no
\* undefined bit is set.
C11_DecodeEncodeMasksFlags ==
    Decoded =>
        /\ probe.back.ty = probe.arg.ty
        /\ probe.back.flags = BitAnd(probe.arg.flags, DefinedFlags(probe.arg.ty))
        /\ (probe.arg.ty > 9 => probe.back = probe.arg)

\* DATA with every flag bit set came back with Padded and EndStream only.
C11_Witness ==
    /\ Decoded
    /\ probe.arg = [ty |-> 0, flags |-> 255]
    /\ probe.back = [ty |-> 0, flags |-> 9]

\* C12 (as claimed): encoding any FrameType value and decoding the result
\* gives the value back.
C12_EncodeDecodeIdentity == Encoded => probe.back = probe.arg

KnownCode(t) == t.variant = "Unknown" /\ t.ft.ty \in 0 .. 9

\* C12 (amended): encoding a FrameType value and decoding the result gives the
\* value back when it is a known variant, or Unknown carrying a type byte that
\* is not a known code; Unknown carrying a known code 0..9 comes back as the
\* known variant of that code.
C12_EncodeDecodeUnlessKnownCode ==
    Encoded =>
        IF KnownCode(probe.arg)
        THEN /\ probe.back.variant # "Unknown"
             /\ FrameTypeEncode(probe.back).ty = probe.arg.ft.ty
        ELSE probe.back = probe.arg

\* HEADERS with all four flags came back as it was.
C12_Witness ==
    /\ Encoded
    /\ probe.arg = Flagged("Headers", 45)
    /\ probe.out = [ty |-> 1, flags |-> 45]
    /\ probe.back = probe.arg

\* C13: StreamId::try_from(v) succeeds exactly when v <= 0x7FFFFFFF, with v as
\* the id; above that it fails, with v in the error, and gives no id.
C13_TryFromTopBit ==
    (probe.call = "try_from" /\ probe.done) =>
        IF probe.arg.hi <= 32767
        THEN probe.out = [ok |-> TRUE, id |-> probe.arg.hi * 65536 + probe.arg.lo]
        ELSE probe.out = [ok |-> FALSE, err |-> probe.arg]

\* 0x80000001 was refused.
C13_Witness ==
    /\ probe.call = "try_from"
    /\ probe.done
    /\ probe.arg = [hi |-> 32768, lo |-> 1]
    /\ ~probe.out.ok

\* C17: write_frame writes 9 header bytes whose length field is the length of
\* the payload, whatever len the caller's frame carried, and the payload right
\* after them; Frame::parse reads that length and leaves the payload.
C17_HeaderLenIsPayloadLen ==
    (probe.call = "write_frame" /\ probe.done) =>
        LET payload == probe.arg.payload
            bytes == probe.out
        IN /\ Len(bytes) = HeaderLen + Len(payload)
           /\ bytes[1] * 65536 + bytes[2] * 256 + bytes[3] = Len(payload)
           /\ SubSeq(bytes, HeaderLen + 1, Len(bytes)) = payload
           /\ probe.back.status = "Ok"
           /\ probe.back.frame.len = Len(payload)
           /\ probe.back.rest = payload

\* A frame with len 5 was written with a payload of 300 bytes.
C17_Witness ==
    /\ probe.call = "write_frame"
    /\ probe.done
    /\ probe.arg.frame.len = 5
    /\ Len(probe.arg.payload) = 300
    /\ Take(probe.out, 3) = <<0, 1, 44>>

\* ------------------------------------------ a consumer that keeps receiving
\* lib.rs 14-18, 172: the receiving half ev_rx is a public field of Conn; the
\* consumer takes event after event from it with recv(), without a deadline.
EvRxRecv ==
    /\ cpc = "receiving"
    /\ ev_rx # <<>>
    /\ LET r == ChanRecv(ev_rx)
       IN /\ ev_rx' = r.ch
          /\ received' = Append(received, r.ev)
    /\ UNCHANGED <<cpc, failure, types, last_frame, now, deadline, returned, w>>
    /\ UNCHANGED <<peerVars, readerVars, probe>>

\* The peer writes its frames whole and then stays silent, the stream open.
DrainInit ==
    /\ InitEngine
    /\ peerTodo \in SeqsUpTo(PeerFrames, MaxFrames)
    /\ cpc = "receiving"
    /\ probe = NoProbe

DrainNext ==
    \/ ReaderReadHeader
    \/ ReaderReadPayload
    \/ ReaderSend
    \/ PeerSend
    \/ EvRxRecv

\* The executor polls every task that can run: a read completes when bytes
\* are there, a send when the channel has room, a recv when it holds an
\* event; and the peer writes every frame it set out to write.
DrainSpec ==
    /\ DrainInit
    /\ [][DrainNext]_vars
    /\ WF_vars(ReaderReadHeader)
    /\ WF_vars(ReaderReadPayload)
    /\ WF_vars(ReaderSend)
    /\ WF_vars(PeerSend)
    /\ WF_vars(EvRxRecv)

\* C21 (as claimed): once the peer has written its complete frames and stays
\* silent with the stream open, the consumer that keeps receiving eventually
\* has a Frame event for every one of them.
C21_BufferedFramesDelivered ==
    (peerTodo = <<>> /\ link = "open") ~> (FramesOf(received) = sent)

\* The reader awaits bytes that never come while a complete frame sits in
\* its buffer.
ReaderStalledOnBufferedFrame ==
    /\ rpc = "read_header"
    /\ ReadResults = {}
    /\ ev_rx = <<>>
    /\ FrameParse(res_buf).status = "Ok"
    /\ Len(FrameParse(res_buf).rest) >= FrameParse(res_buf).frame.len

=============================================================================
